---- MODULE Spec2Model ----
(***************************************************************************)
(* Model of the guess-trade server (src/src/main.rs).                      *)
(*                                                                         *)
(* The server keeps one AppState behind one std::sync::Mutex.  Each of the *)
(* four handlers (admin_board, user_bid, user_check, user_ping) locks the  *)
(* mutex on entry and drops the guard when it returns.  A request task is  *)
(* modelled as a process: it is issued (pc = "lock"), acquires the mutex,  *)
(* runs the handler body and returns (pc = "idle").  user_bid is split at  *)
(* its three blocks (fee and gating, ask-book entry, settlement) so that   *)
(* the intermediate states inside the critical section are visible.        *)
(*                                                                         *)
(* Integers are unbounded here: the configuration and request values are   *)
(* drawn from small sets, far away from the i64 limits.                    *)
(*                                                                         *)
(* Four specifications share the actions:                                  *)
(*   Spec        non-negative configurations, clock at or after the epoch  *)
(*   SpecMono    Spec on a host whose clock is never set back              *)
(*   SpecSigned  configurations with negative fees, prices and volumes     *)
(*   SpecEpoch   a clock that may stand before the epoch, where now()      *)
(*               panics inside the critical section; fair scheduling       *)
(***************************************************************************)
EXTENDS Integers, Sequences, FiniteSets, TLC

(***************************************************************************)
(* Bounds of the model.                                                    *)
(***************************************************************************)
\* number of requests issued in one behaviour
MaxReqs == 3

\* request tasks that may be in flight at the same time
Procs == {1, 2}
\* usernames of the configuration, and the names a request path may carry
Users == {"a", "b"}
UNames == Users \cup {"ghost"}
\* prices of the configuration and of the request path
PriceSet == {1, 3}
\* volumes, fees, initial balances and trade start times of the configuration
VolSet == {0, 1, 2}
FeeSet == {1, 2}
BalanceSet == {3}
StartSet == {1}
\* values of the system clock (nanoseconds since the epoch): before the trade
\* start and at it
ClockSet == {0, 1}

VARIABLES
    config,             \* AppConfig as loaded (never changes)
    users,              \* AppState.users   : uname -> UserAccount
    asks,               \* AppState.asks    : price -> vol (BTreeMap)
    fee,                \* AppState.fee
    trade_start_nanos,  \* AppState.trade_start_nanos
    locked,             \* the Mutex is held
    poisoned,           \* the Mutex is poisoned: a task panicked while it held the guard
    clock,              \* the system clock read by now()
    pc,                 \* position of each request task
    req,                \* the request each task carries
    last,               \* the request answered by the step just taken, and its response
    snap,               \* state seen by a task when it acquired the mutex
    nreq,               \* requests issued so far
    charged,            \* history: fee debits per user
    trades,             \* history: prices of the bids of a user that returned trade_succ
    attempts,           \* history: PlaceBid calls returned, per price
    eligible,           \* history: PlaceBid calls that reached the ask book, per price
    opened              \* history: a CheckAsks call succeeded or a bid passed `now < start_ts`

cfgVars == <<config, fee, trade_start_nanos>>
histVars == <<charged, trades, attempts, eligible, opened>>
vars == <<config, users, asks, fee, trade_start_nanos, locked, poisoned, clock, pc, req,
          last, snap, nreq, charged, trades, attempts, eligible, opened>>

(***************************************************************************)
(* Values.                                                                 *)
(***************************************************************************)
\* StatusCode::NOT_FOUND, FORBIDDEN, OK
NOT_FOUND == 404
FORBIDDEN == 403
OK == 200

\* the return statement a response came from
Outcomes == {"none", "UserNotFound", "InsufficientFunds", "NotYetOpen",
             "AlreadyTraded", "NoSuchPriceLevel", "Exhausted", "Matched", "Ok"}

\* struct UserAccount
UserAccount(balance, done_trade) == [balance |-> balance, done_trade |-> done_trade]

\* struct PriceVol
PriceVol(price, vol) == [price |-> price, vol |-> vol]

\* BidResult::default(), CheckResult::default(), PingResult::default() and an
\* empty BoardResult, as one flat record; status 0 and outcome "none" mean
\* that the task has not returned yet.
NoResp ==
    [status |-> 0, outcome |-> "none", trade_succ |-> FALSE,
     now_nanos |-> 0, trade_start_nanos |-> 0, balance |-> 0,
     asks |-> <<>>, done_users |-> <<>>, running_users |-> <<>>]

NoReq == [op |-> "none", uname |-> "", price |-> 0]
\* no response was sent by the step just taken
NoLast == [req |-> NoReq, res |-> NoResp]
NoSnap == [users |-> <<>>, asks |-> <<>>]

\* every BTreeMap<i64, i64> the loop of main can build from a configuration
AskBooks == UNION {[S -> VolSet] : S \in SUBSET PriceSet}

\* AppConfig
Configs ==
    [users : {Users}, trade_start_nanos : StartSet, init_balance : BalanceSet,
     fee : FeeSet, asks : AskBooks]

\* fn now(): the system clock
now == clock

\* duration_since(UNIX_EPOCH) is Err for a clock before the epoch, and now()
\* panics in its unwrap()
NowPanics == clock < 0

\* positions inside the critical section
CS == {"bid_fee", "bid_match", "bid_settle", "check", "ping", "board"}

(***************************************************************************)
(* Construction: main builds AppState from the configuration.              *)
(***************************************************************************)
Init ==
    /\ config \in Configs
    /\ users = [u \in config.users |-> UserAccount(config.init_balance, FALSE)]
    /\ asks = config.asks
    /\ fee = config.fee
    /\ trade_start_nanos = config.trade_start_nanos
    /\ locked = FALSE
    /\ poisoned = FALSE
    /\ clock \in ClockSet
    /\ pc = [p \in Procs |-> "idle"]
    /\ req = [p \in Procs |-> NoReq]
    /\ last = NoLast
    /\ snap = [p \in Procs |-> NoSnap]
    /\ nreq = 0
    /\ charged = [u \in Users |-> 0]
    /\ trades = [u \in Users |-> <<>>]
    /\ attempts = [x \in PriceSet |-> 0]
    /\ eligible = [x \in PriceSet |-> 0]
    /\ opened = FALSE

(***************************************************************************)
(* The environment: requests arrive, the clock moves.                      *)
(***************************************************************************)
\* the router hands a request to a task, which starts its handler at
\* state.lock().  The extracted path (uname, price) is read by nothing before
\* the handler holds the lock, so it is drawn in Acquire.  Tasks are
\* interchangeable: the request goes to the first idle one.
Request(p) ==
    /\ pc[p] = "idle"
    /\ \A q \in Procs : q < p => pc[q] /= "idle"
    /\ nreq < MaxReqs
    /\ nreq' = nreq + 1
    /\ pc' = [pc EXCEPT ![p] = "lock"]
    /\ last' = NoLast
    /\ UNCHANGED <<cfgVars, users, asks, locked, poisoned, clock, req, snap, histVars>>

\* (variant: the clock runs backwards)
TickBackwards ==
    /\ clock - 1 \in ClockSet
    /\ clock' = clock - 1
    /\ last' = NoLast
    /\ UNCHANGED <<cfgVars, users, asks, locked, poisoned, pc, req, snap, nreq, histVars>>

\* SystemTime moves forward
Tick ==
    /\ clock + 1 \in ClockSet
    /\ clock' = clock + 1
    /\ last' = NoLast
    /\ UNCHANGED <<cfgVars, users, asks, locked, poisoned, pc, req, snap, nreq, histVars>>

\* SystemTime is not monotonic: the system clock may be set back
ClockStepBack ==
    /\ clock' \in {t \in ClockSet : t < clock}
    /\ last' = NoLast
    /\ UNCHANGED <<cfgVars, users, asks, locked, poisoned, pc, req, snap, nreq, histVars>>

(***************************************************************************)
(* The mutex.                                                              *)
(***************************************************************************)
\* (variant: a lock that excludes nobody)
CanLockAlways == TRUE

\* Mutex::lock returns only while no other guard is alive
CanLock == ~locked

\* lock() returns Err(PoisonError) and unwrap() panics
IsPoisoned == poisoned

\* the first position of each handler after state.lock()
Entry(op) ==
    CASE op = "bid" -> "bid_fee"
      [] op = "check" -> "check"
      [] op = "ping" -> "ping"
      [] op = "board" -> "board"

\* let g = state.lock().unwrap(), in the handler `op` called with the path
\* (uname, price)
Acquire(p, op, uname, price) ==
    /\ pc[p] = "lock"
    /\ CanLock
    /\ ~IsPoisoned
    /\ locked' = TRUE
    /\ req' = [req EXCEPT ![p] = [op |-> op, uname |-> uname, price |-> price]]
    /\ pc' = [pc EXCEPT ![p] = Entry(op)]
    /\ snap' = [snap EXCEPT ![p] = [users |-> users, asks |-> asks]]
    /\ last' = NoLast
    /\ UNCHANGED <<cfgVars, users, asks, poisoned, clock, nreq, histVars>>

\* a return statement: the response goes out and the guard g is dropped
Return(p, r) ==
    /\ last' = [req |-> req[p], res |-> r]
    /\ req' = [req EXCEPT ![p] = NoReq]
    /\ pc' = [pc EXCEPT ![p] = "idle"]
    /\ snap' = [snap EXCEPT ![p] = NoSnap]
    /\ locked' = FALSE
    /\ UNCHANGED poisoned

\* a panic inside the handler: the task unwinds and sends no response; the
\* guard g is dropped while panicking, which poisons the Mutex
Panic(p) ==
    /\ last' = NoLast
    /\ req' = [req EXCEPT ![p] = NoReq]
    /\ pc' = [pc EXCEPT ![p] = "idle"]
    /\ snap' = [snap EXCEPT ![p] = NoSnap]
    /\ locked' = FALSE
    /\ poisoned' = TRUE

\* state.lock().unwrap() on the poisoned Mutex: the handler panics at its
\* first statement and the request gets no response
LockPoisoned(p) ==
    /\ pc[p] = "lock"
    /\ CanLock
    /\ IsPoisoned
    /\ pc' = [pc EXCEPT ![p] = "idle"]
    /\ last' = NoLast
    /\ UNCHANGED <<cfgVars, users, asks, locked, poisoned, clock, req, snap, nreq, histVars>>

Reply(status, outcome) == [NoResp EXCEPT !.status = status, !.outcome = outcome]

(***************************************************************************)
(* Pieces of the handlers.                                                 *)
(***************************************************************************)
\* g.users.get(&uname).is_none() is false
HasUser(uname) == uname \in DOMAIN users

\* (variant: the check `ua.balance < fee` is left out)
CanAffordAlways(uname) == TRUE

\* the check `ua.balance < fee` does not reject
CanAfford(uname) == ~(users[uname].balance < fee)

\* ua.balance -= fee
DebitFee(uname) == [users EXCEPT ![uname].balance = @ - fee]

\* (variant: the gate `now < start_ts` is left out)
BeforeOpenNever == FALSE

\* now < start_ts
BeforeOpen == now < trade_start_nanos

\* (variant: the check `ua.done_trade` is left out)
HasTradedNever(uname) == FALSE

\* ua.done_trade
HasTraded(uname) == users[uname].done_trade

\* (variant: the comparison `*v < 0` in place of `*v <= 0`)
ExhaustedBelowZero(v) == v < 0

\* the Occupied arm gives up: *v <= 0
Exhausted(v) == v <= 0

\* e.remove()
Remove(m, k) == [x \in DOMAIN m \ {k} |-> m[x]]

\* (variant: a level that reaches 0 is kept, `if *v < 0 { e.remove(); }`)
DecrementAskKeepsZero(m, price) ==
    LET v == m[price] - 1
    IN  IF v < 0 THEN Remove(m, price) ELSE [m EXCEPT ![price] = v]

\* (variant: the level is removed whatever is left of it)
DecrementAskRemoves(m, price) == Remove(m, price)

\* (variant: `*v += 1` in place of `*v -= 1`)
DecrementAskAdds(m, price) ==
    LET v == m[price] + 1
    IN  IF v <= 0 THEN Remove(m, price) ELSE [m EXCEPT ![price] = v]

\* the Occupied arm with *v > 0: *v -= 1; if *v <= 0 { e.remove(); }
DecrementAsk(m, price) ==
    LET v == m[price] - 1
    IN  IF v <= 0 THEN Remove(m, price) ELSE [m EXCEPT ![price] = v]

\* (variant: the final block debits the price and leaves done_trade alone)
SettleKeepsRunning(uname, price) ==
    [users EXCEPT ![uname].balance = @ - price]

\* (variant: the final block charges the fee a second time)
SettleChargesFeeAgain(uname, price) ==
    [users EXCEPT ![uname] = UserAccount(@.balance - price - fee, TRUE)]

\* ua.balance -= price; ua.done_trade = true
Settle(uname, price) ==
    [users EXCEPT ![uname] = UserAccount(@.balance - price, TRUE)]

\* a PlaceBid call returns: one more attempt at its price
CountAttempt(p) == [attempts EXCEPT ![req[p].price] = @ + 1]

(***************************************************************************)
(* user_bid                                                                *)
(***************************************************************************)
\* from the lock to the end of the `balance` block: user, fee, gating checks
BidFee(p) ==
    LET uname == req[p].uname IN
    /\ pc[p] = "bid_fee"
    /\ IF NowPanics
       THEN /\ Panic(p)
            /\ UNCHANGED <<users, charged, opened, attempts>>
       ELSE IF ~HasUser(uname)
       THEN /\ Return(p, Reply(NOT_FOUND, "UserNotFound"))
            /\ attempts' = CountAttempt(p)
            /\ UNCHANGED <<users, charged, opened>>
       ELSE IF ~CanAfford(uname)
       THEN /\ Return(p, Reply(FORBIDDEN, "InsufficientFunds"))
            /\ attempts' = CountAttempt(p)
            /\ UNCHANGED <<users, charged, opened>>
       ELSE /\ users' = DebitFee(uname)
            /\ charged' = [charged EXCEPT ![uname] = @ + 1]
            /\ IF BeforeOpen
               THEN /\ Return(p, Reply(FORBIDDEN, "NotYetOpen"))
                    /\ attempts' = CountAttempt(p)
                    /\ UNCHANGED opened
               ELSE IF HasTraded(uname)
               THEN /\ Return(p, Reply(FORBIDDEN, "AlreadyTraded"))
                    /\ attempts' = CountAttempt(p)
                    /\ opened' = TRUE
               ELSE /\ pc' = [pc EXCEPT ![p] = "bid_match"]
                    /\ last' = NoLast
                    /\ opened' = TRUE
                    /\ UNCHANGED <<req, snap, locked, poisoned, attempts>>
    /\ UNCHANGED <<cfgVars, asks, clock, nreq, trades, eligible>>

\* match g.asks.entry(price)
BidMatch(p) ==
    LET price == req[p].price IN
    /\ pc[p] = "bid_match"
    /\ eligible' = [eligible EXCEPT ![price] = @ + 1]
    /\ IF price \notin DOMAIN asks
       THEN /\ Return(p, Reply(OK, "NoSuchPriceLevel"))
            /\ attempts' = CountAttempt(p)
            /\ UNCHANGED asks
       ELSE IF Exhausted(asks[price])
       THEN /\ Return(p, Reply(OK, "Exhausted"))
            /\ attempts' = CountAttempt(p)
            /\ UNCHANGED asks
       ELSE /\ asks' = DecrementAsk(asks, price)
            /\ pc' = [pc EXCEPT ![p] = "bid_settle"]
            /\ last' = NoLast
            /\ UNCHANGED <<req, snap, locked, poisoned, attempts>>
    /\ UNCHANGED <<cfgVars, users, clock, nreq, charged, trades, opened>>

\* res.trade_succ = true; the final block and the last return
BidSettle(p) ==
    LET uname == req[p].uname
        price == req[p].price IN
    /\ pc[p] = "bid_settle"
    /\ users' = Settle(uname, price)
    /\ Return(p, [Reply(OK, "Matched") EXCEPT !.trade_succ = TRUE])
    /\ attempts' = CountAttempt(p)
    /\ trades' = [trades EXCEPT ![uname] = Append(@, price)]
    /\ UNCHANGED <<cfgVars, asks, clock, nreq, charged, eligible, opened>>

(***************************************************************************)
(* user_check                                                              *)
(***************************************************************************)
\* (variant: an iteration from the largest key down)
Max(S) == CHOOSE x \in S : \A y \in S : x >= y

\* the first key of an ascending iteration
Min(S) == CHOOSE x \in S : \A y \in S : x <= y

\* g.asks.iter().map(..).collect(): a BTreeMap iterates in ascending key order
RECURSIVE AskList(_)
AskList(m) ==
    IF DOMAIN m = {} THEN <<>>
    ELSE LET k == Min(DOMAIN m)
         IN  <<PriceVol(k, m[k])>> \o AskList(Remove(m, k))

UserCheck(p) ==
    LET uname == req[p].uname IN
    /\ pc[p] = "check"
    /\ IF NowPanics
       THEN /\ Panic(p)
            /\ UNCHANGED <<users, charged, opened>>
       ELSE IF ~HasUser(uname)
       THEN /\ Return(p, Reply(NOT_FOUND, "UserNotFound"))
            /\ UNCHANGED <<users, charged, opened>>
       ELSE IF ~CanAfford(uname)
       THEN /\ Return(p, Reply(FORBIDDEN, "InsufficientFunds"))
            /\ UNCHANGED <<users, charged, opened>>
       ELSE /\ users' = DebitFee(uname)
            /\ charged' = [charged EXCEPT ![uname] = @ + 1]
            /\ IF BeforeOpen
               THEN /\ Return(p, Reply(FORBIDDEN, "NotYetOpen"))
                    /\ UNCHANGED opened
               ELSE /\ Return(p, [Reply(OK, "Ok") EXCEPT !.asks = AskList(asks)])
                    /\ opened' = TRUE
    /\ UNCHANGED <<cfgVars, asks, clock, nreq, trades, attempts, eligible>>

(***************************************************************************)
(* user_ping                                                               *)
(***************************************************************************)
\* (variant: an unknown user gets an account, as with entry().or_insert())
UserPingCreates(p) ==
    LET uname == req[p].uname IN
    /\ pc[p] = "ping"
    /\ IF ~HasUser(uname)
       THEN /\ users' = [u \in DOMAIN users \cup {uname} |->
                           IF u = uname THEN UserAccount(config.init_balance, FALSE)
                           ELSE users[u]]
            /\ Return(p, Reply(NOT_FOUND, "UserNotFound"))
            /\ UNCHANGED charged
       ELSE IF ~CanAfford(uname)
       THEN /\ Return(p, Reply(FORBIDDEN, "InsufficientFunds"))
            /\ UNCHANGED <<users, charged>>
       ELSE /\ users' = DebitFee(uname)
            /\ charged' = [charged EXCEPT ![uname] = @ + 1]
            /\ Return(p, [Reply(OK, "Ok") EXCEPT
                            !.now_nanos = now,
                            !.trade_start_nanos = trade_start_nanos,
                            !.balance = users[uname].balance - fee])
    /\ UNCHANGED <<cfgVars, asks, clock, nreq, trades, attempts, eligible, opened>>

UserPing(p) ==
    LET uname == req[p].uname IN
    /\ pc[p] = "ping"
    /\ IF ~HasUser(uname)
       THEN /\ Return(p, Reply(NOT_FOUND, "UserNotFound"))
            /\ UNCHANGED <<users, charged>>
       ELSE IF ~CanAfford(uname)
       THEN /\ Return(p, Reply(FORBIDDEN, "InsufficientFunds"))
            /\ UNCHANGED <<users, charged>>
       ELSE /\ users' = DebitFee(uname)
            /\ charged' = [charged EXCEPT ![uname] = @ + 1]
            /\ IF NowPanics
               THEN Panic(p)
               ELSE Return(p, [Reply(OK, "Ok") EXCEPT
                                 !.now_nanos = now,
                                 !.trade_start_nanos = trade_start_nanos,
                                 !.balance = users[uname].balance - fee])
    /\ UNCHANGED <<cfgVars, asks, clock, nreq, trades, attempts, eligible, opened>>

(***************************************************************************)
(* admin_board                                                             *)
(***************************************************************************)
\* the orders in which g.users.iter() may yield the entries of the HashMap
IterOrders(S) ==
    {s \in [1..Cardinality(S) -> S] : \A i, j \in DOMAIN s : i /= j => s[i] /= s[j]}

\* (variant: the key `ua.balance`, without the minus)
SortKeyAscending(e) == e[2].balance

\* the sort key of an entry: - ua.balance
SortKey(e) == 0 - e[2].balance

\* put x behind the entries of the sorted list whose key is not greater
RECURSIVE InsertByKey(_, _)
InsertByKey(x, s) ==
    IF s = <<>> THEN <<x>>
    ELSE IF SortKey(Head(s)) <= SortKey(x)
         THEN <<Head(s)>> \o InsertByKey(x, Tail(s))
         ELSE <<x>> \o s

\* Vec::sort_by_key: a stable sort
RECURSIVE SortByKey(_)
SortByKey(s) ==
    IF s = <<>> THEN <<>>
    ELSE InsertByKey(s[Len(s)], SortByKey(SubSeq(s, 1, Len(s) - 1)))

\* the entries of the iteration whose done_trade is `flag`, in iteration order
Entries(order, flag) ==
    LET IsIn(u) == users[u].done_trade = flag
        picked == SelectSeq(order, IsIn)
    IN  [i \in 1..Len(picked) |-> <<picked[i], users[picked[i]]>>]

AdminBoard(p) ==
    /\ pc[p] = "board"
    /\ \E order \in IterOrders(DOMAIN users) :
          Return(p, [Reply(OK, "Ok") EXCEPT
                       !.done_users = SortByKey(Entries(order, TRUE)),
                       !.running_users = SortByKey(Entries(order, FALSE))])
    /\ UNCHANGED <<cfgVars, users, asks, clock, nreq, histVars>>

(***************************************************************************)
(* The specification.                                                      *)
(***************************************************************************)
Next ==
    \/ \E p \in Procs : Request(p)
    \/ \E p \in Procs, uname \in UNames : Acquire(p, "ping", uname, 0)
    \/ \E p \in Procs, uname \in UNames : Acquire(p, "check", uname, 0)
    \/ \E p \in Procs, uname \in UNames, price \in PriceSet :
          Acquire(p, "bid", uname, price)
    \/ \E p \in Procs : Acquire(p, "board", "", 0)
    \/ \E p \in Procs : BidFee(p)
    \/ \E p \in Procs : BidMatch(p)
    \/ \E p \in Procs : BidSettle(p)
    \/ \E p \in Procs : UserCheck(p)
    \/ \E p \in Procs : UserPing(p)
    \/ \E p \in Procs : AdminBoard(p)
    \/ Tick
    \/ ClockStepBack

Spec == Init /\ [][Next]_vars

\* the same server on a host whose clock is never set back
NextMono ==
    \/ \E p \in Procs : Request(p)
    \/ \E p \in Procs, uname \in UNames : Acquire(p, "ping", uname, 0)
    \/ \E p \in Procs, uname \in UNames : Acquire(p, "check", uname, 0)
    \/ \E p \in Procs, uname \in UNames, price \in PriceSet :
          Acquire(p, "bid", uname, price)
    \/ \E p \in Procs : Acquire(p, "board", "", 0)
    \/ \E p \in Procs : BidFee(p)
    \/ \E p \in Procs : BidMatch(p)
    \/ \E p \in Procs : BidSettle(p)
    \/ \E p \in Procs : UserCheck(p)
    \/ \E p \in Procs : UserPing(p)
    \/ \E p \in Procs : AdminBoard(p)
    \/ Tick

SpecMono == Init /\ [][NextMono]_vars

(***************************************************************************)
(* The server started from any configuration the loader accepts: AppConfig *)
(* and PriceVol hold plain i64 fields and main checks none of them, and    *)
(* the Path extractor of user_bid accepts any i64 as the price.            *)
(***************************************************************************)
\* prices, volumes and fees of either sign
SignedPriceSet == {-2, 1}
SignedVolSet == {-1, 1}
SignedFeeSet == {-1, 2}

SignedAskBooks == UNION {[S -> SignedVolSet] : S \in SUBSET SignedPriceSet}

SignedConfigs ==
    [users : {Users}, trade_start_nanos : StartSet, init_balance : BalanceSet,
     fee : SignedFeeSet, asks : SignedAskBooks]

InitSigned ==
    /\ config \in SignedConfigs
    /\ users = [u \in config.users |-> UserAccount(config.init_balance, FALSE)]
    /\ asks = config.asks
    /\ fee = config.fee
    /\ trade_start_nanos = config.trade_start_nanos
    /\ locked = FALSE
    /\ poisoned = FALSE
    /\ clock \in ClockSet
    /\ pc = [p \in Procs |-> "idle"]
    /\ req = [p \in Procs |-> NoReq]
    /\ last = NoLast
    /\ snap = [p \in Procs |-> NoSnap]
    /\ nreq = 0
    /\ charged = [u \in Users |-> 0]
    /\ trades = [u \in Users |-> <<>>]
    /\ attempts = [x \in SignedPriceSet |-> 0]
    /\ eligible = [x \in SignedPriceSet |-> 0]
    /\ opened = FALSE

NextSigned ==
    \/ \E p \in Procs : Request(p)
    \/ \E p \in Procs, uname \in UNames : Acquire(p, "ping", uname, 0)
    \/ \E p \in Procs, uname \in UNames : Acquire(p, "check", uname, 0)
    \/ \E p \in Procs, uname \in UNames, price \in SignedPriceSet :
          Acquire(p, "bid", uname, price)
    \/ \E p \in Procs : Acquire(p, "board", "", 0)
    \/ \E p \in Procs : BidFee(p)
    \/ \E p \in Procs : BidMatch(p)
    \/ \E p \in Procs : BidSettle(p)
    \/ \E p \in Procs : UserCheck(p)
    \/ \E p \in Procs : UserPing(p)
    \/ \E p \in Procs : AdminBoard(p)
    \/ Tick
    \/ ClockStepBack

SpecSigned == InitSigned /\ [][NextSigned]_vars

(***************************************************************************)
(* The server on a host whose clock may stand before the Unix epoch, with  *)
(* fair scheduling of the request tasks.                                   *)
(***************************************************************************)
\* values of the system clock, the nanosecond before the epoch included
HostClockSet == {-1} \cup ClockSet

InitEpoch ==
    /\ config \in Configs
    /\ users = [u \in config.users |-> UserAccount(config.init_balance, FALSE)]
    /\ asks = config.asks
    /\ fee = config.fee
    /\ trade_start_nanos = config.trade_start_nanos
    /\ locked = FALSE
    /\ poisoned = FALSE
    /\ clock \in HostClockSet
    /\ pc = [p \in Procs |-> "idle"]
    /\ req = [p \in Procs |-> NoReq]
    /\ last = NoLast
    /\ snap = [p \in Procs |-> NoSnap]
    /\ nreq = 0
    /\ charged = [u \in Users |-> 0]
    /\ trades = [u \in Users |-> <<>>]
    /\ attempts = [x \in PriceSet |-> 0]
    /\ eligible = [x \in PriceSet |-> 0]
    /\ opened = FALSE

NextEpoch ==
    \/ Next
    \/ \E p \in Procs : LockPoisoned(p)

\* task p takes the Mutex (or fails to, on a poisoned one)
Lock(p) ==
    \/ \E uname \in UNames : Acquire(p, "ping", uname, 0)
    \/ \E uname \in UNames : Acquire(p, "check", uname, 0)
    \/ \E uname \in UNames, price \in PriceSet : Acquire(p, "bid", uname, price)
    \/ Acquire(p, "board", "", 0)
    \/ LockPoisoned(p)

\* task p runs a piece of its handler
Run(p) ==
    \/ BidFee(p)
    \/ BidMatch(p)
    \/ BidSettle(p)
    \/ UserCheck(p)
    \/ UserPing(p)
    \/ AdminBoard(p)

\* the runtime keeps polling a task that can run, and a task that waits for
\* the Mutex gets it after finitely many releases
Fairness == \A p \in Procs : WF_vars(Run(p)) /\ SF_vars(Lock(p))

SpecEpoch == InitEpoch /\ [][NextEpoch]_vars /\ Fairness

\* the same fair scheduling with the clock at or after the epoch
SpecFair == Init /\ [][Next]_vars /\ Fairness

(***************************************************************************)
(* Vocabulary of the properties.                                           *)
(***************************************************************************)
Min2(a, b) == IF a <= b THEN a ELSE b
Max2(a, b) == IF a >= b THEN a ELSE b

RECURSIVE SumSeq(_)
SumSeq(s) == IF s = <<>> THEN 0 ELSE Head(s) + SumSeq(Tail(s))

\* how often x occurs in the sequence s
Count(s, x) == Cardinality({i \in DOMAIN s : s[i] = x})

RECURSIVE SumOver(_, _)
SumOver(f, S) ==
    IF S = {} THEN 0
    ELSE LET x == CHOOSE y \in S : TRUE IN f[x] + SumOver(f, S \ {x})

\* PlaceBid calls at price x that returned trade_succ = true
MatchedAt(x) == SumOver([u \in Users |-> Count(trades[u], x)], Users)

\* remaining volume of level x in the book m (0 for a level that is not there)
VolIn(m, x) == IF x \in DOMAIN m THEN m[x] ELSE 0

\* no handler is between its lock and its return
NoneInside == \A p \in Procs : pc[p] \notin CS

\* task p returns from its handler in this step
Returns(p) == pc[p] \in CS /\ pc'[p] = "idle"

\* task p returns from handler `op`, called for a configured user
ReturnsFrom(p, op) == Returns(p) /\ req[p].op = op

\* the system clock is before the configured trade start
ClockBeforeStart == clock < config.trade_start_nanos

\* the caller of the handler task p runs, as the handler found it at the lock
Before(p) == snap[p].users[req[p].uname]

(***************************************************************************)
(* C1  Single winner.                                                      *)
(***************************************************************************)
\* C1 as stated: once the bids at a level seeded with volume v have returned,
\* the number of them that returned trade_succ = true is min(v, number of
\* PlaceBid calls at that price) and the level holds max(0, v - matched).
C1_AsStated ==
    NoneInside =>
        \A x \in DOMAIN config.asks :
            LET v == config.asks[x] IN
            /\ MatchedAt(x) = Min2(v, attempts[x])
            /\ VolIn(asks, x) = Max2(0, v - MatchedAt(x))

\* C1 amended: the bids that count are those that reach the ask book (known
\* user, fee paid, trade open, not yet traded); the number of matched bids at
\* a level seeded with v is min(max(v, 0), number of such bids), the level
\* holds v - matched, and it is gone exactly when its last unit was sold.
C1_SingleWinner ==
    NoneInside =>
        \A x \in DOMAIN config.asks :
            LET v == config.asks[x] IN
            /\ MatchedAt(x) = Min2(Max2(v, 0), eligible[x])
            /\ VolIn(asks, x) = v - MatchedAt(x)
            /\ x \notin DOMAIN asks <=> (v > 0 /\ MatchedAt(x) = v)

\* two bids at a level seeded with one unit reached the book: one matched,
\* the other did not
C1_Witness ==
    /\ NoneInside
    /\ \E x \in DOMAIN config.asks :
          config.asks[x] = 1 /\ eligible[x] = 2 /\ MatchedAt(x) = 1

(***************************************************************************)
(* C2  One trade per user.                                                 *)
(***************************************************************************)
\* a PlaceBid call of a user who has traded already returns in this step
LaterBidReturns(p) ==
    /\ ReturnsFrom(p, "bid")
    /\ req[p].uname \in Users
    /\ trades[req[p].uname] /= <<>>

\* C2 as stated: no user has two PlaceBid calls that returned trade_succ =
\* true, and every PlaceBid call of a user after the successful one returns
\* AlreadyTraded.
C2_AsStated ==
    /\ [](\A u \in Users : Len(trades[u]) <= 1)
    /\ [][\A p \in Procs :
            LaterBidReturns(p) => last'.res.outcome = "AlreadyTraded"]_vars

\* C2 amended: no user has two PlaceBid calls that returned trade_succ = true,
\* and every PlaceBid call of a user after the successful one returns 403 with
\* trade_succ = false: InsufficientFunds when the balance is below the fee,
\* else NotYetOpen when the clock is before the trade start, else
\* AlreadyTraded.
C2_OneTradePerUser ==
    /\ [](\A u \in Users : Len(trades[u]) <= 1)
    /\ [][\A p \in Procs :
            LaterBidReturns(p) =>
                /\ last'.res.status = FORBIDDEN
                /\ ~last'.res.trade_succ
                /\ last'.res.outcome =
                      IF Before(p).balance < fee THEN "InsufficientFunds"
                      ELSE IF ClockBeforeStart THEN "NotYetOpen"
                      ELSE "AlreadyTraded"]_vars

\* a user who has traded bid again and was told AlreadyTraded
C2_Witness ==
    /\ last.req.op = "bid"
    /\ last.res.outcome = "AlreadyTraded"
    /\ last.req.uname \in Users
    /\ Len(trades[last.req.uname]) = 1

(***************************************************************************)
(* C3  Balance sufficiency.                                                *)
(***************************************************************************)
\* C3 as stated: every debit is preceded by a sufficiency check, so that no
\* reachable state has a user with a negative balance.
C3_AsStated == \A u \in DOMAIN users : users[u].balance >= 0

(***************************************************************************)
(* C4  Fee monotonicity.                                                   *)
(***************************************************************************)
\* a Ping, CheckAsks or PlaceBid call that passed the user-exists and the
\* affordability check returns in this step
ChargedCallReturns(p) ==
    /\ Returns(p)
    /\ req[p].op \in {"ping", "check", "bid"}
    /\ req[p].uname \in Users
    /\ Before(p).balance >= fee

\* C4: a Ping, CheckAsks or PlaceBid call that passes the user-exists and
\* affordability checks lowers the balance of its caller by exactly fee
\* (also when it ends NotYetOpen, AlreadyTraded or without a match), by
\* exactly fee + price when it matches, and changes no other balance.
C4_FeeMonotonicity ==
    [][\A p \in Procs :
        ChargedCallReturns(p) =>
            LET u == req[p].uname
                paid == IF last'.res.trade_succ THEN fee + req[p].price ELSE fee
            IN  /\ users'[u].balance = Before(p).balance - paid
                /\ \A w \in Users \ {u} :
                      users'[w].balance = snap[p].users[w].balance]_vars

\* a matched bid, and a bid rejected after the fee was taken, have returned
C4_Witness ==
    /\ last.req.op = "bid"
    /\ last.res.outcome \in {"AlreadyTraded", "NotYetOpen"}
    /\ \E u \in Users : trades[u] /= <<>>

(***************************************************************************)
(* C5  Gating before open.                                                 *)
(***************************************************************************)
\* task p runs the gate of user_check or user_bid in this step (the step that
\* reads now()), and the clock is before the trade start
GateStepBeforeOpen(p) ==
    /\ pc[p] \in {"bid_fee", "check"}
    /\ pc'[p] /= pc[p]
    /\ ClockBeforeStart

\* what C5 says of a gated call: 403 NotYetOpen, the fee charged, no asks
\* returned, the ask book and the done_trade flags as they were
Gated(p) ==
    LET u == req[p].uname IN
    /\ Returns(p)
    /\ last'.res.status = FORBIDDEN
    /\ last'.res.outcome = "NotYetOpen"
    /\ last'.res.asks = <<>>
    /\ ~last'.res.trade_succ
    /\ u \in Users
    /\ users' = [snap[p].users EXCEPT ![u].balance = @ - fee]
    /\ asks' = snap[p].asks

\* C5 as stated: any CheckAsks or PlaceBid call executed while the clock is
\* before trade_start_nanos returns NotYetOpen (403) with the fee charged, and
\* Ping succeeds regardless of the clock.
C5_AsStated ==
    [][\A p \in Procs :
        /\ GateStepBeforeOpen(p) => Gated(p)
        /\ ReturnsFrom(p, "ping") => last'.res.status = OK]_vars

\* C5 amended: a CheckAsks or PlaceBid call of a configured user whose balance
\* covers the fee, executed while the clock is before trade_start_nanos,
\* returns NotYetOpen (403) with the fee charged, no asks, and the ask book and
\* done_trade unchanged; a Ping of a configured user whose balance covers the
\* fee succeeds whatever the clock says.
C5_GatingBeforeOpen ==
    [][\A p \in Procs :
        LET known == req[p].uname \in Users /\ Before(p).balance >= fee IN
        /\ (GateStepBeforeOpen(p) /\ known) => Gated(p)
        /\ (ReturnsFrom(p, "ping") /\ known) =>
              /\ last'.res.status = OK
              /\ last'.res.now_nanos = clock]_vars

\* a CheckAsks call was turned away as NotYetOpen
C5_Witness ==
    /\ last.req.op = "check"
    /\ last.res.outcome = "NotYetOpen"
    /\ ClockBeforeStart

(***************************************************************************)
(* C6  Ask-book positivity.                                                *)
(***************************************************************************)
\* C6 as stated: in every reachable state, starting from the book seeded from
\* the configuration, every entry of the ask book has a volume > 0.
C6_AsStated == \A x \in DOMAIN asks : asks[x] > 0

(***************************************************************************)
(* C7  Atomicity of a bid.                                                 *)
(***************************************************************************)
\* positions at which a handler is about to read the state
ReadPos == {"bid_fee", "bid_match", "check", "ping", "board"}

\* the balance the calls returned so far leave user u with
ExpectedBalance(u) == config.init_balance - fee * charged[u] - SumSeq(trades[u])

\* the volume the bids matched so far leave level x with
ExpectedVol(x) == VolIn(config.asks, x) - MatchedAt(x)

\* every matched bid is in the state with all its three effects
Applied ==
    /\ \A u \in Users :
          /\ users[u].done_trade = (trades[u] /= <<>>)
          /\ users[u].balance = ExpectedBalance(u)
    /\ \A x \in PriceSet : VolIn(asks, x) = ExpectedVol(x)

\* the same, of the entries a Board or CheckAsks response carries
AppliedInResponse(res) ==
    /\ \A e \in {res.done_users[i] : i \in DOMAIN res.done_users}
                \cup {res.running_users[i] : i \in DOMAIN res.running_users} :
          /\ e[2].done_trade = (trades[e[1]] /= <<>>)
          /\ e[2].balance = ExpectedBalance(e[1])
    /\ \A i \in DOMAIN res.asks : res.asks[i].vol = ExpectedVol(res.asks[i].price)

\* C7: under any interleaving at most one operation is inside the critical
\* section, every state an operation reads has each matched bid's level
\* decrement, price debit and done_trade all applied or none, and so has
\* every Board and CheckAsks response.
C7_BidAtomic ==
    /\ [](Cardinality({p \in Procs : pc[p] \in CS}) <= 1)
    /\ [](\A p \in Procs : pc[p] \in ReadPos => Applied)
    /\ [][\A p \in Procs :
            (ReturnsFrom(p, "board") \/ ReturnsFrom(p, "check")) =>
                AppliedInResponse(last'.res)]_vars

\* Board answered after a matched bid while another request waits for the lock
C7_Witness ==
    /\ last.req.op = "board"
    /\ Len(last.res.done_users) = 1
    /\ \E p \in Procs : pc[p] = "lock"

(***************************************************************************)
(* C8  Unknown user.                                                       *)
(***************************************************************************)
\* C8: Ping, CheckAsks and PlaceBid called with a username that is not
\* configured return 404 and leave all balances, all done_trade flags and the
\* ask book as they were; no account is created.
C8_UnknownUser ==
    [][\A p \in Procs :
        (/\ Returns(p)
         /\ req[p].op \in {"ping", "check", "bid"}
         /\ req[p].uname \notin config.users) =>
            /\ last'.res.status = NOT_FOUND
            /\ users' = snap[p].users
            /\ DOMAIN users' = config.users
            /\ asks' = snap[p].asks]_vars

\* a PlaceBid of an unknown user got 404
C8_Witness ==
    /\ last.req.op = "bid"
    /\ last.req.uname \notin config.users
    /\ last.res.status = NOT_FOUND

(***************************************************************************)
(* C9  Insufficient funds.                                                 *)
(***************************************************************************)
\* C9: when the balance of a configured caller is below fee, Ping, CheckAsks
\* and PlaceBid return 403 InsufficientFunds without a debit or any other
\* change of the state, also when the clock is before the trade start or the
\* caller has traded already.
C9_InsufficientFunds ==
    [][\A p \in Procs :
        (/\ Returns(p)
         /\ req[p].op \in {"ping", "check", "bid"}
         /\ req[p].uname \in Users
         /\ Before(p).balance < fee) =>
            /\ last'.res.status = FORBIDDEN
            /\ last'.res.outcome = "InsufficientFunds"
            /\ users' = snap[p].users
            /\ asks' = snap[p].asks]_vars

\* a user who has traded and is out of funds bid again: InsufficientFunds
C9_Witness ==
    /\ last.req.op = "bid"
    /\ last.res.outcome = "InsufficientFunds"
    /\ last.req.uname \in Users
    /\ users[last.req.uname].done_trade

(***************************************************************************)
(* C10  No match is not an error.                                          *)
(***************************************************************************)
\* task p, having passed the fee, trade-start and done_trade checks, looks
\* up a price level that is absent or exhausted
NoMatchStep(p) ==
    /\ pc[p] = "bid_match"
    /\ pc'[p] /= "bid_match"
    /\ \/ req[p].price \notin DOMAIN snap[p].asks
       \/ snap[p].asks[req[p].price] <= 0

\* C10: a PlaceBid that passes the fee, trade-start and done_trade checks and
\* names a level that is absent or exhausted returns 200 with trade_succ =
\* false; apart from the fee debit it changes nothing.
C10_NoMatch ==
    [][\A p \in Procs :
        NoMatchStep(p) =>
            /\ Returns(p)
            /\ last'.res.status = OK
            /\ ~last'.res.trade_succ
            /\ users' = [snap[p].users EXCEPT ![req[p].uname].balance = @ - fee]
            /\ asks' = snap[p].asks]_vars

\* a bid at a level that was sold out and removed returned 200 without a match
C10_Witness ==
    /\ last.req.op = "bid"
    /\ last.res.status = OK
    /\ ~last.res.trade_succ
    /\ last.req.price \in DOMAIN config.asks
    /\ last.req.price \notin DOMAIN asks

(***************************************************************************)
(* C11  Matched bid effect.                                                *)
(***************************************************************************)
\* the book m after one unit of level x was sold
OneSold(m, x) ==
    [y \in (IF m[x] = 1 THEN DOMAIN m \ {x} ELSE DOMAIN m) |->
        IF y = x THEN m[x] - 1 ELSE m[y]]

\* C11: a PlaceBid that passes all checks at a level with volume > 0 returns
\* 200 with trade_succ = true, takes exactly 1 from exactly that level
\* (removing it at 0), leaves the other levels alone, sets done_trade of the
\* caller and lowers the caller's balance by the price on top of the fee.
C11_MatchedBid ==
    [][\A p \in Procs :
        LET u == req[p].uname
            x == req[p].price
            before == snap[p]
        IN
        /\ (/\ pc[p] = "bid_match"
            /\ pc'[p] /= "bid_match"
            /\ x \in DOMAIN before.asks
            /\ before.asks[x] > 0) =>
                /\ pc'[p] = "bid_settle"
                /\ asks' = OneSold(before.asks, x)
        /\ (pc[p] = "bid_settle" /\ pc'[p] /= "bid_settle") =>
                /\ Returns(p)
                /\ last'.res.status = OK
                /\ last'.res.trade_succ
                /\ asks' = OneSold(before.asks, x)
                /\ users' = [before.users EXCEPT
                               ![u] = UserAccount(@.balance - fee - x, TRUE)]]_vars

\* a bid matched at a level seeded with 2: the level stays, with 1
C11_Witness ==
    /\ last.req.op = "bid"
    /\ last.res.trade_succ
    /\ config.asks[last.req.price] = 2
    /\ asks[last.req.price] = 1

(***************************************************************************)
(* C12  Board.                                                             *)
(***************************************************************************)
\* the usernames of a list of the Board response
Names(list) == {list[i][1] : i \in DOMAIN list}

\* a list of the Board response is in descending order of balance
Descending(list) ==
    \A i, j \in DOMAIN list : i < j => list[i][2].balance >= list[j][2].balance

\* C12: Board returns 200 with every configured user in exactly one of the two
\* lists, done_users holding exactly the users with done_trade = true and
\* running_users the others, each list in descending order of balance and
\* carrying the current account of each user; Board changes no state.
C12_Board ==
    [][\A p \in Procs :
        (pc[p] = "board" /\ pc'[p] /= "board") =>
            LET res == last'.res IN
            /\ Returns(p)
            /\ res.status = OK
            /\ Names(res.done_users) = {u \in config.users : users[u].done_trade}
            /\ Names(res.running_users) = {u \in config.users : ~users[u].done_trade}
            /\ Len(res.done_users) + Len(res.running_users) = Cardinality(config.users)
            /\ \A list \in {res.done_users, res.running_users} :
                  /\ Descending(list)
                  /\ \A i \in DOMAIN list : list[i][2] = users[list[i][1]]
            /\ users' = snap[p].users
            /\ asks' = snap[p].asks
            /\ UNCHANGED <<users, asks, cfgVars>>]_vars

\* Board listed two running users with different balances
C12_Witness ==
    /\ last.req.op = "board"
    /\ Len(last.res.running_users) = 2
    /\ last.res.running_users[1][2].balance > last.res.running_users[2][2].balance

(***************************************************************************)
(* C13  CheckAsks snapshot.                                                *)
(***************************************************************************)
\* C13: a CheckAsks call that passes the user, fee and trade-start checks
\* returns exactly the ask book of that point of the serialized order, one
\* (price, vol) entry per level in strictly ascending order of price: every
\* bid matched before it is in it.
C13_CheckSnapshot ==
    [][\A p \in Procs :
        (ReturnsFrom(p, "check") /\ last'.res.status = OK) =>
            LET list == last'.res.asks IN
            /\ \A i, j \in DOMAIN list : i < j => list[i].price < list[j].price
            /\ {list[i].price : i \in DOMAIN list} = DOMAIN asks
            /\ \A i \in DOMAIN list :
                  /\ list[i].vol = asks[list[i].price]
                  /\ list[i].vol = config.asks[list[i].price] - MatchedAt(list[i].price)
            /\ asks = snap[p].asks]_vars

\* CheckAsks returned two levels, one of them after a bid took a unit of it
C13_Witness ==
    /\ last.req.op = "check"
    /\ Len(last.res.asks) = 2
    /\ \E i \in DOMAIN last.res.asks :
          last.res.asks[i].vol < config.asks[last.res.asks[i].price]

(***************************************************************************)
(* C14  No deadlock and no stuck request.                                  *)
(***************************************************************************)
\* task p has a request that has started and not ended
Started(p) == pc[p] /= "idle"

\* the request of task p ends in this step
Ends(p) == Started(p) /\ pc'[p] = "idle"

\* C14 as stated: at most one critical section is held at a time, every
\* return of a handler releases the lock, no request ends without a
\* structured response (so none makes later requests fail), and under fair
\* scheduling every request that starts gets the lock and returns.
C14_AsStated ==
    /\ [](Cardinality({p \in Procs : pc[p] \in CS}) <= 1)
    /\ [](locked <=> \E p \in Procs : pc[p] \in CS)
    /\ [][\A p \in Procs : Returns(p) => ~locked']_vars
    /\ [][\A p \in Procs :
            Ends(p) => last'.res.status \in {OK, FORBIDDEN, NOT_FOUND}]_vars
    /\ \A p \in Procs : Started(p) ~> ~Started(p)

(***************************************************************************)
(* C15  done_trade is monotonic.                                           *)
(***************************************************************************)
\* C15: the done_trade flag of a user only goes from false to true, only in
\* the matched PlaceBid of that user, and once it is true no later PlaceBid of
\* that user changes the ask book or debits a price.
C15_DoneTradeMonotonic ==
    [][/\ \A u \in Users :
            /\ users[u].done_trade => users'[u].done_trade
            /\ (users'[u].done_trade /= users[u].done_trade) =>
                  \E p \in Procs :
                      /\ pc[p] = "bid_settle"
                      /\ req[p].uname = u
                      /\ Returns(p)
                      /\ last'.res.trade_succ
       /\ \A p \in Procs :
            (/\ ReturnsFrom(p, "bid")
             /\ req[p].uname \in Users
             /\ Before(p).done_trade) =>
                /\ ~last'.res.trade_succ
                /\ asks' = snap[p].asks
                /\ users'[req[p].uname].done_trade
                /\ users'[req[p].uname].balance
                      \in {Before(p).balance, Before(p).balance - fee}]_vars

\* a user who has traded bid at a level that still has volume and was turned
\* away
C15_Witness ==
    /\ last.req.op = "bid"
    /\ last.res.outcome = "AlreadyTraded"
    /\ last.req.price \in DOMAIN asks
    /\ asks[last.req.price] > 0

(***************************************************************************)
(* C16  The ask book only shrinks.                                         *)
(***************************************************************************)
\* C16: the book never gains a price level after startup, no volume ever
\* grows, a removed level does not come back, and the book changes only in a
\* matched PlaceBid: Ping, CheckAsks, Board and the PlaceBid calls that are
\* rejected or find no match leave it as it was.
C16_BookOnlyShrinks ==
    /\ [](DOMAIN asks \subseteq DOMAIN config.asks)
    /\ [][/\ DOMAIN asks' \subseteq DOMAIN asks
          /\ \A x \in DOMAIN asks' : asks'[x] <= asks[x]
          /\ asks' /= asks =>
                \E p \in Procs : pc[p] = "bid_match" /\ pc'[p] = "bid_settle"
          /\ \A p \in Procs :
                (Returns(p) /\ ~last'.res.trade_succ) => asks' = snap[p].asks]_vars

\* a level was sold out and removed, and a later Ping left the book without it
C16_Witness ==
    /\ last.req.op = "ping"
    /\ last.res.status = OK
    /\ DOMAIN asks /= DOMAIN config.asks

(***************************************************************************)
(* C20  Nothing trades before the open.                                    *)
(***************************************************************************)
\* C20: with a clock that never goes backwards, in every state in which the
\* clock is before trade_start_nanos the ask book is as seeded and no user has
\* done_trade; and once a CheckAsks call has succeeded or a bid has passed the
\* trade-start check, no CheckAsks or PlaceBid call serialized after it
\* returns NotYetOpen.
C20_NothingBeforeOpen ==
    /\ [](ClockBeforeStart =>
            /\ asks = config.asks
            /\ \A u \in Users : ~users[u].done_trade)
    /\ [][\A p \in Procs :
            (Returns(p) /\ req[p].op \in {"check", "bid"} /\ opened) =>
                last'.res.outcome /= "NotYetOpen"]_vars

\* a bid reached the ask book, and a CheckAsks call serialized after it got
\* the book
C20_Witness ==
    /\ last.req.op = "check"
    /\ last.res.outcome = "Ok"
    /\ \E x \in PriceSet : eligible[x] > 0

(***************************************************************************)
(* C17  Unit conservation.                                                 *)
(***************************************************************************)
\* users with done_trade = true
TradedUsers == {u \in Users : users[u].done_trade}

\* PlaceBid calls that returned trade_succ = true
MatchedBids == SumOver([u \in Users |-> Len(trades[u])], Users)

\* the volume of all levels of the book m
TotalVolume(m) == SumOver(m, DOMAIN m)

\* C17 as stated: whenever the lock is free, the number of users with
\* done_trade = true equals the number of PlaceBid calls that returned
\* trade_succ = true and equals the total seeded volume minus the total volume
\* in the ask book; hence the number of traded users never exceeds the total
\* seeded volume.
C17_AsStated ==
    ~locked =>
        /\ Cardinality(TradedUsers) = MatchedBids
        /\ Cardinality(TradedUsers) = TotalVolume(config.asks) - TotalVolume(asks)
        /\ Cardinality(TradedUsers) <= TotalVolume(config.asks)

(***************************************************************************)
(* C18  Balances never increase.                                           *)
(***************************************************************************)
\* C18 as stated: for every configuration the loader accepts and every bid
\* price, no Ping, CheckAsks, PlaceBid or Board call leaves the balance of a
\* user higher than it was before the call.
C18_AsStated ==
    [][\A p \in Procs :
         Returns(p) =>
             \A u \in Users : users'[u].balance <= snap[p].users[u].balance]_vars

(***************************************************************************)
(* C19  An exhausted account is absorbing.                                 *)
(***************************************************************************)
\* no call of user u is between its lock and its return
Outside(u) == \A p \in Procs : pc[p] \in CS => req[p].uname /= u

\* C19 as stated: with fee > 0, a balance below fee stays below fee, every
\* later Ping, CheckAsks and PlaceBid call of that user is rejected with 403
\* and changes no state, the user never trades afterwards, and a user
\* completes at most init_balance / fee charged calls when init_balance >= 0.
C19_AsStated ==
    /\ [][\A u \in Users :
            (config.fee > 0 /\ Outside(u) /\ users[u].balance < fee) =>
                /\ users'[u].balance < fee
                /\ trades'[u] = trades[u]]_vars
    /\ [][\A p \in Procs :
            (/\ config.fee > 0
             /\ Returns(p)
             /\ req[p].op \in {"ping", "check", "bid"}
             /\ req[p].uname \in Users
             /\ Before(p).balance < fee) =>
                /\ last'.res.status = FORBIDDEN
                /\ users' = snap[p].users
                /\ asks' = snap[p].asks]_vars
    /\ [](\A u \in Users :
            (config.fee > 0 /\ config.init_balance >= 0) =>
                charged[u] <= config.init_balance \div config.fee)

====
